---- MODULE Spec2Model ----
(***************************************************************************)
(* Companion update dashboard: the cooldown-gated, single-flight update    *)
(* pipeline (app/main.py, app/services/docker_ops.py).                     *)
(*                                                                         *)
(* Time is counted in ticks of 1/TicksPerSecond seconds, so that elapsed   *)
(* times that are not a whole number of seconds exist.  The program reads  *)
(* the clock only as time.time() - self._last_update_time: the model keeps *)
(* that difference, `elapsed`, and counts it up to ElapsedCap, past which  *)
(* every instant reads alike.  FastAPI runs the                            *)
(* async handlers on one event loop: a handler runs without interruption   *)
(* from one suspension point (yield / await) to the next.  trigger_update  *)
(* has no suspension point at all, so while it runs no other handler runs. *)
(***************************************************************************)
EXTENDS Integers, Sequences, FiniteSets, TLC

\* ------------------------------------------------------------------ bounds
NumReqs == 2          \* start requests (each arrives at most once)
MaxLines == 1         \* output lines a stage sub-process prints at most
MaxOver == 1          \* ticks past the end of a cooldown that are still counted
MaxVerLen == 3        \* length of the version strings that are all tried
NumStatus == 2        \* status queries that can be in progress at once
TicksPerSecond == 2

\* --------------------------------------------------------- program constants
update_cooldown == 6  \* Settings.update_cooldown, seconds (environment setting)
SettleSeconds == 5    \* time.sleep(5) in perform_update
github_cache_ttl == 1 \* Settings.github_cache_ttl, seconds (environment setting)

CooldownTicks == update_cooldown * TicksPerSecond
SettleTicks == SettleSeconds * TicksPerSecond
ElapsedCap == CooldownTicks + MaxOver
TtlTicks == github_cache_ttl * TicksPerSecond
AgeCap == TtlTicks + MaxOver
SinceCap == MaxOver + 1

Reqs == 1..NumReqs
StatusIds == 1..NumStatus
Stages == <<"pull", "rebuild", "restart">>

VARIABLES
    elapsed,             \* time.time() - _last_update_time, in ticks
    update_in_progress,  \* the module-level flag of main.py
    req,                 \* the start requests: handler position and what it sent
    procs,               \* the stage sub-processes that are running
    cache,               \* GitHubClient._cache: <<>> (None) or <<release>>
    cache_age,           \* time.time() - GitHubClient._cache_time, in ticks
    st,                  \* the status queries: handler position and result
    ver                  \* a call of a function of version.py: arguments, result

vars == <<elapsed, update_in_progress, req, procs, cache, cache_age, st, ver>>
statusVars == <<cache, cache_age, st>>

\* ---------------------------------------------------------------- messages
None == <<"<None>">>
\* `if version`: None and "" are falsy
Truthy(v) == v # None /\ v # <<>>
Msg(fmt, n, v) == [fmt |-> fmt, n |-> n, v |-> v]
Text(fmt) == Msg(fmt, 0, <<>>)
Event(type, message) == [type |-> type, message |-> message]
UpdateResponse(success, message) == [success |-> success, message |-> message]

Max(a, b) == IF a >= b THEN a ELSE b
Min(a, b) == IF a <= b THEN a ELSE b
\* d ticks later
Later(t, d) == Min(t + d, ElapsedCap)
AgeLater(t, d) == Min(t + d, AgeCap)
\* the time since a request was accepted is counted up to SinceCap
SinceLater(t, d) == Min(t + d, SinceCap)
\* the time since a release lookup began is counted up to TtlTicks, for the
\* lookups that are waiting for the network
StatusLater(sq, d) ==
    [s \in DOMAIN sq |->
        IF sq[s].pc = "fetching"
        THEN [sq[s] EXCEPT !.began = Min(@ + d, TtlTicks)]
        ELSE sq[s]]
\* Python int(): truncation towards zero of n/d
Trunc(n, d) == IF n >= 0 THEN n \div d ELSE -((-n) \div d)

\* Strings are sequences of characters.
\* str.lstrip("v"): every leading "v" is removed
RECURSIVE lstrip_v(_)
lstrip_v(s) == IF s # <<>> /\ Head(s) = "v" THEN lstrip_v(Tail(s)) ELSE s

\* ------------------------------------------------------------ version.py
Digits == <<"0", "1", "2", "3", "4", "5", "6", "7", "8", "9">>
IsDigit(c) == \E i \in 1..10 : Digits[i] = c
DigitValue(c) == (CHOOSE i \in 1..10 : Digits[i] = c) - 1

\* tuple(int(p) for p in re.findall(r"\d+", s)): the maximal runs of digits,
\* each read as a decimal number.  n is the run being read (open), acc the
\* runs already closed.
RECURSIVE findall_digits(_, _, _, _)
findall_digits(s, n, open, acc) ==
    IF s = <<>> THEN (IF open THEN Append(acc, n) ELSE acc)
    ELSE IF IsDigit(Head(s))
         THEN findall_digits(Tail(s), (IF open THEN 10 * n ELSE 0) + DigitValue(Head(s)),
                             TRUE, acc)
         ELSE findall_digits(Tail(s), 0, FALSE, IF open THEN Append(acc, n) ELSE acc)

parse_version(version_str) == findall_digits(lstrip_v(version_str), 0, FALSE, <<>>)

\* faulty variant: the shorter tuple is not padded
Padded_none(t, n) == t

\* t + (0,) * (n - len(t))
Padded(t, n) == t \o [i \in 1..(n - Len(t)) |-> 0]

\* faulty variant: <= in the place of <
TupleLessEq(a, b) ==
    \/ \E i \in 1..Min(Len(a), Len(b)) :
          /\ a[i] < b[i]
          /\ \A j \in 1..(i - 1) : a[j] = b[j]
    \/ /\ Len(a) <= Len(b)
       /\ \A j \in 1..Len(a) : a[j] = b[j]

\* Python's < on tuples of integers (lexicographic, a proper prefix is less)
TupleLess(a, b) ==
    \/ \E i \in 1..Min(Len(a), Len(b)) :
          /\ a[i] < b[i]
          /\ \A j \in 1..(i - 1) : a[j] = b[j]
    \/ /\ Len(a) < Len(b)
       /\ \A j \in 1..Len(a) : a[j] = b[j]

\* faulty variant: the two versions are taken in the wrong order
compare_versions_swapped(current, latest) ==
    LET current_parts == parse_version(latest)
        latest_parts == parse_version(current)
        max_len == Max(Len(current_parts), Len(latest_parts))
        current_padded == Padded(current_parts, max_len)
        latest_padded == Padded(latest_parts, max_len)
    IN  IF TupleLess(current_padded, latest_padded) THEN -1
        ELSE IF TupleLess(latest_padded, current_padded) THEN 1
        ELSE 0

compare_versions(current, latest) ==
    LET current_parts == parse_version(current)
        latest_parts == parse_version(latest)
        max_len == Max(Len(current_parts), Len(latest_parts))
        current_padded == Padded(current_parts, max_len)
        latest_padded == Padded(latest_parts, max_len)
    IN  IF TupleLess(current_padded, latest_padded) THEN -1
        ELSE IF TupleLess(latest_padded, current_padded) THEN 1
        ELSE 0

is_update_available(current, latest) == compare_versions(current, latest) < 0

Unknown == <<"U", "n", "k", "n", "o", "w", "n">>

\* faulty variant: the "v" is prepended to every version
format_version_prefixing(version) ==
    IF ~Truthy(version) THEN Unknown ELSE <<"v">> \o version

\* faulty variant: a missing version is not replaced by "Unknown"
format_version_raw(version) ==
    IF ~Truthy(version) THEN version
    ELSE IF Head(version) # "v" THEN <<"v">> \o version
    ELSE version

format_version(version) ==
    IF ~Truthy(version) THEN Unknown
    ELSE IF Head(version) # "v" THEN <<"v">> \o version
    ELSE version

\* what `docker inspect` can answer for the version label: a non-zero exit
\* (NoContainer), or the label's text
NoContainer == <<"<exit 1>">>
NoValue == <<"<no value>">>
ContainerLabels ==
    {NoContainer, NoValue, <<"4", ".", "2", ".", "3">>, <<"v", "4", ".", "2", ".", "4">>}

\* what `docker inspect` can answer for the container's state
\* (get_container_status): a non-zero exit, or the state's name
ContainerStates ==
    {[exists |-> FALSE, status |-> "not found", running |-> FALSE],
     [exists |-> TRUE, status |-> "running", running |-> TRUE]}

\* str.capitalize() of the states' names
capitalize(status) ==
    CASE status = "not found" -> "Not found"
      [] status = "running" -> "Running"

\* what the GitHub API can answer: a release with its tag (data.get("tag_name",
\* "") is "" when the key is missing), an HTTP error status, no answer, or
\* a release whose "body" is null, on which data.get("body", "")[:500]
\* raises TypeError
ReleaseTags == {<<"v", "4", ".", "2", ".", "4">>, <<>>}
Answers ==
    {[kind |-> "ok", tag_name |-> t] : t \in ReleaseTags}
      \cup {[kind |-> "HTTPStatusError", tag_name |-> <<>>],
            [kind |-> "RequestError", tag_name |-> <<>>],
            [kind |-> "TypeError", tag_name |-> <<>>]}

\* what get_latest_release raises for an answer that is no release
ReleaseError(kind) ==
    CASE kind = "HTTPStatusError" -> Text("GitHub API error: {status_code}")
      [] kind = "RequestError" -> Text("Failed to connect to GitHub: {e}")
      [] kind = "TypeError" -> Text("{TypeError}")
      [] OTHER -> Text("")

\* ------------------------------------------------------------ CooldownGate
\* faulty variant: the interval has to be exceeded
can_update_strict == elapsed > CooldownTicks

can_update == elapsed >= CooldownTicks

get_cooldown_remaining ==
    Max(0, Trunc(CooldownTicks - elapsed, TicksPerSecond))


\* ------------------------------------------------- the pipeline generators
\* A resumption of a generator ends in a yield (the generator is suspended
\* again), a raise or a return.
Yield(m) == [tag |-> "yield", msg |-> m]
Raise(m) == [tag |-> "raise", msg |-> m]
Return == [tag |-> "return", msg |-> Text("")]

\* One resumption's result: the request's generator position q, the time
\* since the cooldown timestamp, the running sub-processes and the outcome.
Gen(q, el, pr, out) ==
    [q |-> q, elapsed |-> el, procs |-> pr, out |-> out, slept |-> 0]

Proc(r, s) == [owner |-> r, stage |-> s]

HeaderMsg == <<"Pulling latest Companion base image...",
               "Rebuilding Companion image...",
               "Restarting Companion container...">>
OkMsg == <<"Base image pulled successfully",
           "Image rebuilt successfully",
           "Container restarted successfully">>
ExitMsg == <<"Failed to pull base image",
             "Failed to rebuild image",
             "Failed to restart container">>
SubprocessErrorMsg == <<"Failed to pull image: {e}",
                        "Failed to rebuild image: {e}",
                        "Failed to restart container: {e}">>

\* `yield from self.<stage>()`: the stage's body starts and yields its header
EnterStage(r, s) ==
    {Gen([req[r] EXCEPT !.pc = "hdr", !.stage = s, !.nlines = 0,
                        !.stages = Append(@, Stages[s])],
         elapsed, procs, Yield(Text(HeaderMsg[s])))}

\* faulty variant: a non-zero exit code is not raised: the pipeline goes on
ReadOutput_swallow(r, s) ==
    (IF req[r].nlines < MaxLines
     THEN {Gen([req[r] EXCEPT !.pc = "line", !.nlines = @ + 1],
               elapsed, procs \cup {Proc(r, s)},
               Yield(Msg("  {line}", req[r].nlines + 1, <<Stages[s]>>)))}
     ELSE {})
    \cup {Gen([req[r] EXCEPT !.pc = "ok", !.failed = s],
              elapsed, procs \ {Proc(r, s)},
              Yield(Text(ExitMsg[s])))}
    \cup {Gen([req[r] EXCEPT !.pc = "ok"],
              elapsed, procs \ {Proc(r, s)},
              Yield(Text(OkMsg[s])))}

\* for line in iter(process.stdout.readline, ""): ... process.wait() ...
\* The sub-process of stage s is running while its lines are being read.
\* A line's text is what the sub-process printed: the model keeps which
\* line of which stage's sub-process it is.
\* (failed: the stage in which the run's failure happened)
ReadOutput(r, s) ==
    (IF req[r].nlines < MaxLines
     THEN {Gen([req[r] EXCEPT !.pc = "line", !.nlines = @ + 1],
               elapsed, procs \cup {Proc(r, s)},
               Yield(Msg("  {line}", req[r].nlines + 1, <<Stages[s]>>)))}
     ELSE {})
    \cup {Gen([req[r] EXCEPT !.pc = "raised", !.failed = s],
              elapsed, procs \ {Proc(r, s)},
              Raise(Text(ExitMsg[s])))}
    \cup {Gen([req[r] EXCEPT !.pc = "ok"],
              elapsed, procs \ {Proc(r, s)},
              Yield(Text(OkMsg[s])))}

\* subprocess.Popen(...): SubprocessError is re-raised as RuntimeError; any
\* other exception (OSError: docker missing, cwd missing) passes through.
Popen(r, s) ==
    {Gen([req[r] EXCEPT !.pc = "raised", !.failed = s], elapsed, procs,
         Raise(Text(SubprocessErrorMsg[s]))),
     Gen([req[r] EXCEPT !.pc = "raised", !.failed = s], elapsed, procs,
         Raise(Text("{OSError}")))}
    \cup ReadOutput(r, s)

pull_base_image(r) ==
    IF req[r].pc = "hdr" THEN Popen(r, 1) ELSE ReadOutput(r, 1)

rebuild_image(r) ==
    IF req[r].pc = "hdr"
    THEN {Gen([req[r] EXCEPT !.pc = "raised", !.failed = 2], elapsed, procs,
              Raise(Text("Companion directory not found: {path}")))}
         \cup Popen(r, 2)
    ELSE ReadOutput(r, 2)

restart_container(r) ==
    IF req[r].pc = "hdr" THEN Popen(r, 3) ELSE ReadOutput(r, 3)

\* get_running_version has no effect on the program's state; label is what
\* the container runtime answers.
get_running_version(label) ==
    IF label = NoContainer THEN None
    ELSE IF label # <<>> /\ label # NoValue THEN lstrip_v(label)
    ELSE None

\* self._last_update_time = time.time(); yield "Waiting ..."
RecordCooldown(r) ==
    {Gen([req[r] EXCEPT !.pc = "waiting", !.stamps = @ + 1,
                        !.stages = Append(@, "verify")],
         0, procs, Yield(Text("Waiting for Companion to start...")))}

\* faulty variant: a version that cannot be read fails the run
SettleAndVerify_strict(r) ==
    {[Gen([req[r] EXCEPT !.pc = IF Truthy(v) THEN "verified" ELSE "raised",
                         !.since_accept = SinceLater(@, SettleTicks)],
          Later(elapsed, SettleTicks), procs,
          IF Truthy(v)
          THEN Yield(Msg("Update complete! Now running version {new_version}", 0, v))
          ELSE Raise(Text("Update complete! Could not verify new version.")))
        EXCEPT !.slept = SettleTicks]
       : v \in {get_running_version(label) : label \in ContainerLabels}}

\* time.sleep(5); new_version = self.get_running_version(); yield ...
SettleAndVerify(r) ==
    {[Gen([req[r] EXCEPT !.pc = "verified",
                         !.since_accept = SinceLater(@, SettleTicks)],
          Later(elapsed, SettleTicks), procs,
          Yield(IF Truthy(v)
                THEN Msg("Update complete! Now running version {new_version}", 0, v)
                ELSE Text("Update complete! Could not verify new version.")))
        EXCEPT !.slept = SettleTicks]
       : v \in {get_running_version(label) : label \in ContainerLabels}}

\* faulty variant: the cooldown timestamp is recorded when the run starts
perform_update_first_recording(r) ==
    IF ~can_update
    THEN {Gen([req[r] EXCEPT !.pc = "raised"], elapsed, procs,
              Raise(Msg("Update cooldown active. Please wait {remaining} seconds.",
                        get_cooldown_remaining, <<>>)))}
    ELSE {Gen([req[r] EXCEPT !.pc = "starting", !.stamps = @ + 1], 0, procs,
              Yield(Text("Starting update process...")))}

\* faulty variant: the inner check asks for more than the endpoints' check
perform_update_first_strict(r) ==
    IF ~(elapsed > CooldownTicks)
    THEN {Gen([req[r] EXCEPT !.pc = "raised"], elapsed, procs,
              Raise(Msg("Update cooldown active. Please wait {remaining} seconds.",
                        get_cooldown_remaining, <<>>)))}
    ELSE {Gen([req[r] EXCEPT !.pc = "starting"], elapsed, procs,
              Yield(Text("Starting update process...")))}

\* The first resumption of perform_update: the inner cooldown check.
perform_update_first(r) ==
    IF ~can_update
    THEN {Gen([req[r] EXCEPT !.pc = "raised"], elapsed, procs,
              Raise(Msg("Update cooldown active. Please wait {remaining} seconds.",
                        get_cooldown_remaining, <<>>)))}
    ELSE {Gen([req[r] EXCEPT !.pc = "starting"], elapsed, procs,
              Yield(Text("Starting update process...")))}

\* faulty variant: the container is restarted before the image is rebuilt
perform_update_restart_first(r) ==
    CASE req[r].pc = "starting" -> EnterStage(r, 1)
      [] req[r].pc \in {"hdr", "line"} /\ req[r].stage = 1 -> pull_base_image(r)
      [] req[r].pc = "ok" /\ req[r].stage = 1 -> EnterStage(r, 3)
      [] req[r].pc \in {"hdr", "line"} /\ req[r].stage = 3 -> restart_container(r)
      [] req[r].pc = "ok" /\ req[r].stage = 3 -> EnterStage(r, 2)
      [] req[r].pc \in {"hdr", "line"} /\ req[r].stage = 2 -> rebuild_image(r)
      [] req[r].pc = "ok" /\ req[r].stage = 2 -> RecordCooldown(r)
      [] req[r].pc = "waiting" -> SettleAndVerify(r)
      [] req[r].pc = "verified" ->
           {Gen([req[r] EXCEPT !.pc = "returned"], elapsed, procs, Return)}
      [] OTHER -> {}

\* Every later resumption of perform_update, by the position it is
\* suspended at.
perform_update(r) ==
    CASE req[r].pc = "starting" -> EnterStage(r, 1)
      [] req[r].pc \in {"hdr", "line"} /\ req[r].stage = 1 -> pull_base_image(r)
      [] req[r].pc = "ok" /\ req[r].stage = 1 -> EnterStage(r, 2)
      [] req[r].pc \in {"hdr", "line"} /\ req[r].stage = 2 -> rebuild_image(r)
      [] req[r].pc = "ok" /\ req[r].stage = 2 -> EnterStage(r, 3)
      [] req[r].pc \in {"hdr", "line"} /\ req[r].stage = 3 -> restart_container(r)
      [] req[r].pc = "ok" /\ req[r].stage = 3 -> RecordCooldown(r)
      [] req[r].pc = "waiting" -> SettleAndVerify(r)
      [] req[r].pc = "verified" ->
           {Gen([req[r] EXCEPT !.pc = "returned"], elapsed, procs, Return)}
      [] OTHER -> {}

\* positions at which perform_update is suspended
GenPcs == {"starting", "hdr", "line", "ok", "waiting", "verified"}


\* ------------------------------------------------------------- the event loop
\* trigger_update drives the blocking generator with no await: from its
\* acceptance to its return no other handler runs.
\* A status handler returns its response in the same run of the loop that
\* computes it: the step after is the frame's release.
Returning == \E s \in StatusIds : st[s].pc = "done"

LoopBusy ==
    \/ \E r \in Reqs : req[r].kind = "trigger" /\ req[r].pc \in GenPcs
    \/ Returning

\* a run that has been accepted and has not ended
Active(r) == req[r].pc \in GenPcs \cup {"complete_sent", "error_sent"}

NewRequest ==
    [kind |-> "none", pc |-> "new", stage |-> 0, nlines |-> 0, events |-> <<>>,
     response |-> UpdateResponse(FALSE, Text("")), stages |-> <<>>,
     stamps |-> 0, outcome |-> "none", since_accept |-> 0, failed |-> 0]

Ended(q, outcome) == [q EXCEPT !.pc = "done", !.stage = 0, !.nlines = 0,
                               !.outcome = outcome]

\* The record of a request that has ended is kept until the next request
\* arrives; after that only how it ended is remembered.
Forget(rq) ==
    [o \in Reqs |->
        IF rq[o].pc \in {"done", "gone"}
        THEN [NewRequest EXCEPT !.pc = "gone", !.outcome = rq[o].outcome,
                                !.stamps = rq[o].stamps]
        ELSE rq[o]]

\* requests are numbered in the order they arrive
Arrives(r) == req[r].pc = "new" /\ \A o \in Reqs : o < r => req[o].pc # "new"

\* faulty variant: the flag is released on the success path only
finally_flag_success_only(how) ==
    IF how = "complete" THEN FALSE ELSE update_in_progress

\* finally: update_in_progress = False  (how: the way the try block was left)
finally_flag(how) == FALSE

\* ------------------------------------------------- stream_update (streaming)
\* faulty variant: the in-progress check is missing
stream_guard_unchecked ==
    IF ~can_update THEN "cooldown" ELSE "accept"

\* faulty variant: the cooldown check is missing
stream_guard_no_cooldown ==
    IF update_in_progress THEN "busy" ELSE "accept"

\* lines 572-581: the guards of event_generator
stream_guard ==
    IF update_in_progress THEN "busy"
    ELSE IF ~can_update THEN "cooldown"
    ELSE "accept"

\* faulty variant: the handler of a failure falls through to the "complete" event
StreamApply_fallthrough(r, g, rq) ==
    /\ elapsed' = g.elapsed
    /\ procs' = g.procs
    /\ cache_age' = AgeLater(cache_age, g.slept)
    /\ st' = StatusLater(st, g.slept)
    /\ UNCHANGED <<cache, ver>>
    /\ req' = [rq EXCEPT ![r] =
         CASE g.out.tag = "yield" ->
                [g.q EXCEPT !.kind = "stream", !.outcome = "running",
                            !.events = Append(@, Event("progress", g.out.msg))]
           [] g.out.tag = "return" ->
                [g.q EXCEPT !.kind = "stream", !.pc = "complete_sent",
                            !.outcome = "complete",
                            !.events = Append(@, Event("complete",
                                          Text("Update completed successfully!")))]
           [] g.out.tag = "raise" ->
                [g.q EXCEPT !.kind = "stream", !.pc = "error_sent",
                            !.outcome = "error",
                            !.events = Append(Append(@, Event("error", g.out.msg)),
                                          Event("complete",
                                            Text("Update completed successfully!")))]]

\* lines 584-593: one resumption of perform_update seen by event_generator,
\* which is suspended again at the yield of the event it produces
StreamApply(r, g, rq) ==
    /\ elapsed' = g.elapsed
    /\ procs' = g.procs
    /\ cache_age' = AgeLater(cache_age, g.slept)
    /\ st' = StatusLater(st, g.slept)
    /\ UNCHANGED <<cache, ver>>
    /\ req' = [rq EXCEPT ![r] =
         CASE g.out.tag = "yield" ->
                [g.q EXCEPT !.kind = "stream", !.outcome = "running",
                            !.events = Append(@, Event("progress", g.out.msg))]
           [] g.out.tag = "return" ->
                [g.q EXCEPT !.kind = "stream", !.pc = "complete_sent",
                            !.outcome = "complete",
                            !.events = Append(@, Event("complete",
                                          Text("Update completed successfully!")))]
           [] g.out.tag = "raise" ->
                [g.q EXCEPT !.kind = "stream", !.pc = "error_sent",
                            !.outcome = "error",
                            !.events = Append(@, Event("error", g.out.msg))]]

\* the request arrives: event_generator runs up to its first yield
stream_update(r) ==
    /\ Arrives(r)
    /\ ~LoopBusy
    /\ CASE stream_guard = "busy" ->
              /\ req' = [Forget(req) EXCEPT ![r] =
                    [Ended(@, "busy") EXCEPT !.kind = "stream",
                       !.events = <<Event("error", Text("Update already in progress"))>>]]
              /\ UNCHANGED <<elapsed, update_in_progress, procs, statusVars, ver>>
         [] stream_guard = "cooldown" ->
              /\ req' = [Forget(req) EXCEPT ![r] =
                    [Ended(@, "cooldown") EXCEPT !.kind = "stream",
                       !.events = <<Event("error",
                            Msg("Cooldown active. Wait {remaining}s",
                                get_cooldown_remaining, <<>>))>>]]
              /\ UNCHANGED <<elapsed, update_in_progress, procs, statusVars, ver>>
         [] OTHER ->
              /\ update_in_progress' = TRUE
              /\ \E g \in perform_update_first(r) : StreamApply(r, g, Forget(req))

\* the consumer asks for the next event: the generator runs to its next yield
event_generator(r) ==
    /\ req[r].kind = "stream"
    /\ req[r].pc \in GenPcs
    /\ ~LoopBusy
    /\ \E g \in perform_update(r) : StreamApply(r, g, req)
    /\ UNCHANGED update_in_progress

\* resumed after the terminal event: the finally block, then the end
event_generator_end(r) ==
    /\ req[r].kind = "stream"
    /\ req[r].pc \in {"complete_sent", "error_sent"}
    /\ ~LoopBusy
    /\ update_in_progress' = finally_flag(req[r].outcome)
    /\ req' = [req EXCEPT ![r] = Ended(@, @.outcome)]
    /\ UNCHANGED <<elapsed, procs, statusVars, ver>>

\* the consumer goes away while the generator is suspended at a progress
\* event: the generator is closed (GeneratorExit / CancelledError are not
\* Exceptions), only the finally block runs; a sub-process whose output was
\* being read is left running.
event_generator_close(r) ==
    /\ req[r].kind = "stream"
    /\ req[r].pc \in GenPcs
    /\ ~LoopBusy
    /\ update_in_progress' = finally_flag("abandoned")
    /\ req' = [req EXCEPT ![r] = Ended(@, "abandoned")]
    /\ UNCHANGED <<elapsed, procs, statusVars, ver>>

\* --------------------------------------------------- trigger_update (blocking)
\* faulty variant: the in-progress check is missing
trigger_guard_unchecked ==
    IF ~can_update THEN "cooldown" ELSE "accept"

\* lines 544-551
trigger_guard ==
    IF update_in_progress THEN "busy"
    ELSE IF ~can_update THEN "cooldown"
    ELSE "accept"

\* faulty variant: the blocking handler reports a failure as a success
TriggerApply_lenient(r, g, rq, flag) ==
    /\ elapsed' = g.elapsed
    /\ procs' = g.procs
    /\ cache_age' = AgeLater(cache_age, g.slept)
    /\ st' = StatusLater(st, g.slept)
    /\ UNCHANGED <<cache, ver>>
    /\ CASE g.out.tag = "yield" ->
              /\ req' = [rq EXCEPT ![r] =
                    [g.q EXCEPT !.kind = "trigger", !.outcome = "running"]]
              /\ update_in_progress' = flag
         [] OTHER ->
              /\ req' = [rq EXCEPT ![r] =
                    [Ended(g.q, "complete") EXCEPT !.kind = "trigger",
                       !.response = UpdateResponse(TRUE,
                                       Text("Update completed successfully"))]]
              /\ update_in_progress' = finally_flag("complete")

\* lines 553-561: `for _ in perform_update(): pass`, the return and the finally
TriggerApply(r, g, rq, flag) ==
    /\ elapsed' = g.elapsed
    /\ procs' = g.procs
    /\ cache_age' = AgeLater(cache_age, g.slept)
    /\ st' = StatusLater(st, g.slept)
    /\ UNCHANGED <<cache, ver>>
    /\ CASE g.out.tag = "yield" ->
              /\ req' = [rq EXCEPT ![r] =
                    [g.q EXCEPT !.kind = "trigger", !.outcome = "running"]]
              /\ update_in_progress' = flag
         [] g.out.tag = "return" ->
              /\ req' = [rq EXCEPT ![r] =
                    [Ended(g.q, "complete") EXCEPT !.kind = "trigger",
                       !.response = UpdateResponse(TRUE,
                                       Text("Update completed successfully"))]]
              /\ update_in_progress' = finally_flag("complete")
         [] g.out.tag = "raise" ->
              /\ req' = [rq EXCEPT ![r] =
                    [Ended(g.q, "error") EXCEPT !.kind = "trigger",
                       !.response = UpdateResponse(FALSE, g.out.msg)]]
              /\ update_in_progress' = finally_flag("error")

trigger_update(r) ==
    /\ Arrives(r)
    /\ ~LoopBusy
    /\ CASE trigger_guard = "busy" ->
              /\ req' = [Forget(req) EXCEPT ![r] =
                    [Ended(@, "busy") EXCEPT !.kind = "trigger",
                       !.response = UpdateResponse(FALSE,
                                       Text("Update already in progress"))]]
              /\ UNCHANGED <<elapsed, update_in_progress, procs, statusVars, ver>>
         [] trigger_guard = "cooldown" ->
              /\ req' = [Forget(req) EXCEPT ![r] =
                    [Ended(@, "cooldown") EXCEPT !.kind = "trigger",
                       !.response = UpdateResponse(FALSE,
                            Msg("Please wait {remaining} seconds",
                                get_cooldown_remaining, <<>>))]]
              /\ UNCHANGED <<elapsed, update_in_progress, procs, statusVars, ver>>
         [] OTHER ->
              \E g \in perform_update_first(r) : TriggerApply(r, g, Forget(req), TRUE)

\* the blocking loop goes on: the next resumption of perform_update
trigger_update_loop(r) ==
    /\ req[r].kind = "trigger"
    /\ req[r].pc \in GenPcs
    /\ \E g \in perform_update(r) : TriggerApply(r, g, req, update_in_progress)

\* ------------------------------------------------------------- environment
\* time passes: for the cooldown, for the cache and for every accepted request
Tick ==
    /\ ~Returning
    /\ \/ elapsed < ElapsedCap
       \/ cache # <<>> /\ cache_age < AgeCap
       \/ \E s \in StatusIds : st[s].pc = "fetching" /\ st[s].began < TtlTicks
    /\ elapsed' = Later(elapsed, 1)
    /\ cache_age' = AgeLater(cache_age, 1)
    /\ st' = StatusLater(st, 1)
    /\ req' = [r \in Reqs |->
                 IF req[r].outcome \in {"running", "complete", "error", "abandoned"}
                    /\ req[r].pc # "gone"
                 THEN [req[r] EXCEPT !.since_accept = SinceLater(@, 1)]
                 ELSE req[r]]
    /\ UNCHANGED <<update_in_progress, procs, cache, ver>>

\* a sub-process left behind by a closed generator exits by itself
OrphanExit ==
    \E p \in procs :
        /\ ~Returning
        /\ req[p.owner].pc \in {"done", "gone"}
        /\ procs' = procs \ {p}
        /\ UNCHANGED <<elapsed, update_in_progress, req, statusVars, ver>>

\* ----------------------------------------------- GitHubClient and get_status
\* faulty variant: the comparison with the TTL is the wrong way round
is_cache_valid_inverted == cache # <<>> /\ cache_age >= TtlTicks

\* faulty variant: a cached release never expires
is_cache_valid_forever == cache # <<>>

\* github.py lines 19-23
is_cache_valid == cache # <<>> /\ cache_age < TtlTicks

NoResult ==
    [current_version |-> <<>>, latest_version |-> <<>>, update_available |-> FALSE,
     container_status |-> "", container_running |-> FALSE,
     can_update |-> FALSE, cooldown_remaining |-> 0]

\* The frame of a status handler.  Besides the handler's position and its
\* local current_version it records, of the handler's call of
\* get_latest_release: the time since it began, while it waits (began), the network
\* requests it has issued (requests), how it ended (fetch: "cached", "ok" or
\* the exception's kind), what it returned (release: <<>> or <<release>>),
\* what it raised (error) and what the cache held when the answer came
\* (replaced).
NewStatus ==
    [pc |-> "new", current_version |-> None, began |-> 0, requests |-> 0,
     fetch |-> "none", release |-> <<>>, error |-> Text(""), replaced |-> <<>>,
     result |-> NoResult]

\* faulty variant: the running version is not tested before the comparison
StatusResponse_latest_only(current_version, latest_version, container_status) ==
    [current_version |-> format_version(current_version),
     latest_version |-> format_version(latest_version),
     update_available |->
         IF Truthy(latest_version)
         THEN is_update_available(current_version, latest_version)
         ELSE FALSE,
     container_status |-> capitalize(container_status.status),
     container_running |-> container_status.running,
     can_update |-> can_update /\ ~update_in_progress,
     cooldown_remaining |-> get_cooldown_remaining]

\* faulty variant: can_update reports the cooldown gate alone
StatusResponse_gate_only(current_version, latest_version, container_status) ==
    [current_version |-> format_version(current_version),
     latest_version |-> format_version(latest_version),
     update_available |->
         IF Truthy(current_version) /\ Truthy(latest_version)
         THEN is_update_available(current_version, latest_version)
         ELSE FALSE,
     container_status |-> capitalize(container_status.status),
     container_running |-> container_status.running,
     can_update |-> can_update,
     cooldown_remaining |-> get_cooldown_remaining]

\* main.py lines 522-535: the response, from the values the handler holds and
\* the gate and the flag as they are when it returns
StatusResponse(current_version, latest_version, container_status) ==
    [current_version |-> format_version(current_version),
     latest_version |-> format_version(latest_version),
     update_available |->
         IF Truthy(current_version) /\ Truthy(latest_version)
         THEN is_update_available(current_version, latest_version)
         ELSE FALSE,
     container_status |-> capitalize(container_status.status),
     container_running |-> container_status.running,
     can_update |-> can_update /\ ~update_in_progress,
     cooldown_remaining |-> get_cooldown_remaining]

\* a query takes the first handler frame that is free
StatusArrives(s) ==
    /\ st[s].pc = "new"
    /\ \A t \in StatusIds : t < s => st[t].pc # "new"

\* faulty variant: the handler ends like the start handlers, releasing the flag
StatusReturn_releasing(s, sq, current_version, latest_version) ==
    /\ \E container_status \in ContainerStates :
          st' = [sq EXCEPT ![s] =
                   [@ EXCEPT !.pc = "done", !.began = 0, !.current_version = current_version,
                             !.result = StatusResponse(current_version, latest_version,
                                                       container_status)]]
    /\ update_in_progress' = FALSE
    /\ UNCHANGED <<elapsed, req, procs, ver>>

\* main.py lines 518-536: get_container_status and the response
StatusReturn(s, sq, current_version, latest_version) ==
    /\ \E container_status \in ContainerStates :
          st' = [sq EXCEPT ![s] =
                   [@ EXCEPT !.pc = "done", !.began = 0, !.current_version = current_version,
                             !.result = StatusResponse(current_version, latest_version,
                                                       container_status)]]
    /\ UNCHANGED <<elapsed, update_in_progress, req, procs, ver>>

\* the query arrives: get_running_version, then get_latest_release, which
\* answers from a valid cache at once (github.py 37-39) and otherwise is
\* suspended in `await client.get(...)` (line 45)
get_status(s) ==
    /\ StatusArrives(s)
    /\ ~LoopBusy
    /\ \E label \in ContainerLabels :
         LET current_version == get_running_version(label) IN
         IF is_cache_valid
         THEN /\ StatusReturn(s, [st EXCEPT ![s] =
                                     [@ EXCEPT !.fetch = "cached", !.release = cache]],
                              current_version, lstrip_v(cache[1].tag_name))
              /\ UNCHANGED <<cache, cache_age>>
         ELSE /\ st' = [st EXCEPT ![s] =
                          [NewStatus EXCEPT !.pc = "fetching", !.requests = 1,
                                            !.current_version = current_version]]
              /\ UNCHANGED <<elapsed, update_in_progress, req, procs, cache, cache_age, ver>>

\* faulty variant: a failed lookup empties the cache
get_latest_release_evicting(s) ==
    /\ st[s].pc = "fetching"
    /\ ~LoopBusy
    /\ \E answer \in Answers :
         IF answer.kind = "ok"
         THEN /\ cache' = <<[tag_name |-> answer.tag_name]>>
              /\ cache_age' = 0
              /\ StatusReturn(s, [st EXCEPT ![s] =
                                    [@ EXCEPT !.fetch = "ok", !.replaced = cache,
                                              !.release = <<[tag_name |-> answer.tag_name]>>]],
                              st[s].current_version, lstrip_v(answer.tag_name))
         ELSE /\ cache' = <<>>
              /\ cache_age' = AgeCap
              /\ StatusReturn(s, [st EXCEPT ![s] =
                                    [@ EXCEPT !.fetch = answer.kind, !.replaced = cache,
                                              !.error = ReleaseError(answer.kind)]],
                              st[s].current_version, None)

\* faulty variant: the release is stored and its time is not
get_latest_release_keeping_time(s) ==
    /\ st[s].pc = "fetching"
    /\ ~LoopBusy
    /\ \E answer \in Answers :
         IF answer.kind = "ok"
         THEN /\ cache' = <<[tag_name |-> answer.tag_name]>>
              /\ cache_age' = cache_age
              /\ StatusReturn(s, [st EXCEPT ![s] =
                                    [@ EXCEPT !.fetch = "ok", !.replaced = cache,
                                              !.release = <<[tag_name |-> answer.tag_name]>>]],
                              st[s].current_version, lstrip_v(answer.tag_name))
         ELSE /\ UNCHANGED <<cache, cache_age>>
              /\ StatusReturn(s, [st EXCEPT ![s] =
                                    [@ EXCEPT !.fetch = answer.kind, !.replaced = cache,
                                              !.error = ReleaseError(answer.kind)]],
                              st[s].current_version, None)

\* the answer of the GitHub API is there: github.py lines 50-70, then the
\* rest of get_status.  (Leaving `async with` suspends the handler once more
\* after the cache is written; nothing it reads afterwards is written by
\* get_latest_release, so the two steps are taken as one.)
get_latest_release(s) ==
    /\ st[s].pc = "fetching"
    /\ ~LoopBusy
    /\ \E answer \in Answers :
         IF answer.kind = "ok"
         THEN /\ cache' = <<[tag_name |-> answer.tag_name]>>
              /\ cache_age' = 0
              /\ StatusReturn(s, [st EXCEPT ![s] =
                                    [@ EXCEPT !.fetch = "ok", !.replaced = cache,
                                              !.release = <<[tag_name |-> answer.tag_name]>>]],
                              st[s].current_version, lstrip_v(answer.tag_name))
         ELSE /\ UNCHANGED <<cache, cache_age>>
              /\ StatusReturn(s, [st EXCEPT ![s] =
                                    [@ EXCEPT !.fetch = answer.kind, !.replaced = cache,
                                              !.error = ReleaseError(answer.kind)]],
                              st[s].current_version, None)

\* github.py lines 72-75: self._cache = None; self._cache_time = 0.  A method
\* of the client that nothing in the application calls; a caller on the
\* event loop runs it between two suspension points.
clear_cache ==
    /\ ~LoopBusy
    /\ cache # <<>>
    /\ cache' = <<>>
    /\ cache_age' = AgeCap
    /\ UNCHANGED <<elapsed, update_in_progress, req, procs, st, ver>>

\* the response is sent and the handler's frame is free again
get_status_return(s) ==
    /\ st[s].pc = "done"
    /\ st' = [st EXCEPT ![s] = NewStatus]
    /\ UNCHANGED <<elapsed, update_in_progress, req, procs, cache, cache_age, ver>>

\* ------------------------------------------------- the calls of version.py
\* The version strings that are tried: every string of up to MaxVerLen of
\* the characters that matter to the functions ("v", the separator, digits),
\* and the versions of the documentation.
VersionChars == {"v", ".", "0", "1"}
VersionExamples ==
    {<<"4", ".", "2">>, <<"4", ".", "2", ".", "0">>,
     <<"4", ".", "2", ".", "3">>, <<"4", ".", "2", ".", "4">>,
     <<"v", "4", ".", "2", ".", "3">>, <<"b", "e", "t", "a">>}
VersionStrings ==
    UNION {[1..n -> VersionChars] : n \in 0..MaxVerLen} \cup VersionExamples

\* a call: the function (op), its arguments and its result
NoCall ==
    [op |-> "none", a |-> <<>>, b |-> <<>>, compared |-> 0, available |-> FALSE,
     formatted |-> <<>>]

call_compare_versions ==
    /\ ver.op = "none"
    /\ ver.a # None
    /\ ver' = [ver EXCEPT !.op = "compare_versions",
                           !.compared = compare_versions(ver.a, ver.b)]
    /\ UNCHANGED <<elapsed, update_in_progress, req, procs, cache, cache_age, st>>

call_is_update_available ==
    /\ ver.op = "none"
    /\ ver.a # None
    /\ ver' = [ver EXCEPT !.op = "is_update_available",
                           !.available = is_update_available(ver.a, ver.b)]
    /\ UNCHANGED <<elapsed, update_in_progress, req, procs, cache, cache_age, st>>

call_format_version ==
    /\ ver.op = "none"
    /\ ver' = [ver EXCEPT !.op = "format_version",
                           !.formatted = format_version(ver.a)]
    /\ UNCHANGED <<elapsed, update_in_progress, req, procs, cache, cache_age, st>>

\* ------------------------------------------------------------ specification
\* time.time() is far beyond update_cooldown when the process starts, and
\* _last_update_time = 0
InitApp ==
    /\ elapsed = ElapsedCap
    /\ update_in_progress = FALSE
    /\ req = [r \in Reqs |-> NewRequest]
    /\ procs = {}
    /\ cache = <<>>
    /\ cache_age = AgeCap
    /\ st = [s \in StatusIds |-> NewStatus]

Init ==
    /\ InitApp
    /\ ver = NoCall

Next ==
    \/ \E r \in Reqs : stream_update(r)
    \/ \E r \in Reqs : event_generator(r)
    \/ \E r \in Reqs : event_generator_end(r)
    \/ \E r \in Reqs : event_generator_close(r)
    \/ \E r \in Reqs : trigger_update(r)
    \/ \E r \in Reqs : trigger_update_loop(r)
    \/ Tick
    \/ OrphanExit

Spec == Init /\ [][Next]_vars

\* The consumer of a stream keeps asking for the next event, and the blocking
\* loop of trigger_update keeps running: every stage terminates.
FairSpec ==
    /\ Spec
    /\ \A r \in Reqs : WF_vars(event_generator(r) \/ event_generator_end(r))
    /\ \A r \in Reqs : WF_vars(trigger_update_loop(r))

\* The dashboard polls the status while one start request is handled.
NextStatus ==
    \/ get_status(1)
    \/ get_latest_release(1)
    \/ get_status_return(1)
    \/ stream_update(1)
    \/ event_generator(1)
    \/ event_generator_end(1)
    \/ event_generator_close(1)
    \/ trigger_update(1)
    \/ trigger_update_loop(1)
    \/ Tick
    \/ OrphanExit

SpecStatus == Init /\ [][NextStatus]_vars

\* Status queries alone, several at a time: the release cache.
NextCache ==
    \/ \E s \in StatusIds : get_status(s)
    \/ \E s \in StatusIds : get_latest_release(s)
    \/ \E s \in StatusIds : get_status_return(s)
    \/ Tick

SpecCache == Init /\ [][NextCache]_vars

\* The client with every operation it has, clear_cache included.
NextClient ==
    \/ NextCache
    \/ clear_cache

SpecClient == Init /\ [][NextClient]_vars

\* The functions of version.py, called on every pair of version strings
\* (format_version also on None).
InitVersion ==
    /\ InitApp
    /\ ver \in {[NoCall EXCEPT !.a = a, !.b = b] :
                  a \in VersionStrings \cup {None}, b \in VersionStrings}

NextVersion ==
    \/ call_compare_versions
    \/ call_is_update_available
    \/ call_format_version

SpecVersion == InitVersion /\ [][NextVersion]_vars

\* ------------------------------------------------------------------ claims
Accepted(r) == req[r].outcome \in {"running", "complete", "error", "abandoned"}

\* the request arrives in this step
Arriving(r) == req[r].pc = "new" /\ req'[r].pc # "new"

\* the message of a request's last event (streaming) or of its result (blocking)
LastMessage(q) ==
    IF q.kind = "stream" THEN q.events[Len(q.events)].message
    ELSE q.response.message

\* C1: single-flight over both entry points.  At most one accepted run is
\* active at any time and the flag is set while it is; a start request of
\* either kind that arrives while a run is active is rejected with
\* "Update already in progress" and the active run stays active.
C1_SingleFlight ==
    /\ [](/\ Cardinality({r \in Reqs : Active(r)}) <= 1
          /\ (\E r \in Reqs : Active(r)) => update_in_progress)
    /\ [][\A r \in Reqs :
            (Arriving(r) /\ \E o \in Reqs : Active(o))
            => /\ req'[r].outcome = "busy"
               /\ LastMessage(req'[r]) = Text("Update already in progress")
               /\ \A o \in Reqs : Active(o) => req'[o] = req[o]]_vars

\* two start requests, one running and the other rejected as already running
C1_Witness ==
    \E a, b \in Reqs :
        /\ Active(a)
        /\ req[b].pc = "done"
        /\ req[b].outcome = "busy"

\* C2: the flag is released on every exit path.  The flag is set only while
\* an accepted run is active; the step that ends a run (success, stage
\* failure, unexpected exception, closed stream) leaves the flag false; and
\* every accepted run ends.
C2_FlagReleased ==
    /\ [](update_in_progress => \E r \in Reqs : Active(r))
    /\ [][\A r \in Reqs :
            (Active(r) /\ ~Active(r)') => ~update_in_progress']_vars
    /\ \A r \in Reqs : Active(r) ~> ~Active(r)

\* a run ended in failure and a later start request was accepted
C2_Witness ==
    \E a, b \in Reqs :
        /\ req[a].pc = "gone"
        /\ req[a].outcome = "error"
        /\ Active(b)

FailureMessages(s) ==
    {Text(ExitMsg[s]), Text(SubprocessErrorMsg[s]), Text("{OSError}")}
    \cup (IF s = 2 THEN {Text("Companion directory not found: {path}")} ELSE {})

EventTypes(q) == [i \in 1..Len(q.events) |-> q.events[i].type]

\* C5: a failure of the pull, rebuild or restart stage aborts the pipeline.
\* A run in which stage k failed has invoked the stages up to k, each once,
\* and none after it (a failed rebuild: no restart); it ends in error, with
\* one terminal "error" event (its last event) or a failure result carrying
\* the failure's message; no sub-process of it is left; and once it has
\* ended the flag is false.
C5_StageFailureAborts ==
    \A r \in Reqs :
        /\ (req[r].pc # "gone" /\ req[r].outcome = "error") => req[r].failed > 0
        /\ req[r].failed > 0
             => /\ req[r].outcome = "error"
                /\ req[r].stages = SubSeq(Stages, 1, req[r].failed)
                /\ LastMessage(req[r]) \in FailureMessages(req[r].failed)
                /\ req[r].kind = "stream"
                     => /\ EventTypes(req[r])[Len(req[r].events)] = "error"
                        /\ \A i \in 1..(Len(req[r].events) - 1) :
                               req[r].events[i].type = "progress"
                /\ req[r].kind = "trigger" => req[r].response.success = FALSE
                /\ \A p \in procs : p.owner # r
                /\ req[r].pc = "done" => ~update_in_progress

\* a streamed run whose rebuild stage failed has ended
C5_Witness ==
    \E r \in Reqs :
        /\ req[r].kind = "stream"
        /\ req[r].pc = "done"
        /\ req[r].failed = 2
        /\ req[r].stages = <<"pull", "rebuild">>

\* an event sequence that one terminal event closes
Closed(ev) ==
    /\ Len(ev) >= 1
    /\ ev[Len(ev)].type \in {"complete", "error"}
    /\ \A i \in 1..(Len(ev) - 1) : ev[i].type = "progress"

C7_RejectedWhileRunning ==
    [][\A r \in Reqs :
         (Arriving(r) /\ update_in_progress)
         => /\ req'[r].pc = "done"
            /\ req'[r].outcome = "busy"
            /\ req'[r].kind = "stream"
                 => req'[r].events =
                      <<Event("error", Text("Update already in progress"))>>
            /\ req'[r].kind = "trigger"
                 => req'[r].response =
                      UpdateResponse(FALSE, Text("Update already in progress"))
            /\ req'[r].stages = <<>>
            /\ req'[r].stamps = 0
            /\ UNCHANGED <<update_in_progress, elapsed, procs>>
            /\ \A o \in Reqs : Active(o) => req'[o] = req[o]]_vars

\* a blocking start request was rejected while a streamed run was in a stage
C7_Witness ==
    \E a, b \in Reqs :
        /\ req[a].pc = "line"
        /\ req[b].kind = "trigger"
        /\ req[b].pc = "done"
        /\ req[b].outcome = "busy"
        /\ update_in_progress

\* C8 as stated: every cooldown rejection carries the error
\* "Cooldown active. Wait {remaining}s".
C8_OneCooldownMessage ==
    \A r \in Reqs :
        (req[r].pc = "done" /\ req[r].outcome = "cooldown")
        => LastMessage(req[r]).fmt = "Cooldown active. Wait {remaining}s"

\* C8 amended: a start request made while no run is in progress and the
\* cooldown is active is rejected with exactly one error, "Cooldown active.
\* Wait {remaining}s" from the streaming endpoint and "Please wait
\* {remaining} seconds" from the blocking one, {remaining} being
\* get_cooldown_remaining() at that moment; it changes nothing: the flag
\* stays false, the cooldown timestamp is untouched, no stage is invoked.
C8_RejectedInCooldown ==
    [][\A r \in Reqs :
         (Arriving(r) /\ ~update_in_progress /\ ~can_update)
         => /\ req'[r].pc = "done"
            /\ req'[r].outcome = "cooldown"
            /\ req'[r].kind = "stream"
                 => req'[r].events =
                      <<Event("error", Msg("Cooldown active. Wait {remaining}s",
                                           get_cooldown_remaining, <<>>))>>
            /\ req'[r].kind = "trigger"
                 => req'[r].response =
                      UpdateResponse(FALSE, Msg("Please wait {remaining} seconds",
                                                get_cooldown_remaining, <<>>))
            /\ req'[r].stages = <<>>
            /\ req'[r].stamps = 0
            /\ ~update_in_progress'
            /\ UNCHANGED <<elapsed, procs>>]_vars

\* a blocking start request was rejected by the cooldown of an earlier update
C8_Witness ==
    \E a, b \in Reqs :
        /\ req[a].stamps = 1
        /\ req[b].kind = "trigger"
        /\ req[b].pc = "done"
        /\ req[b].outcome = "cooldown"
        /\ req[b].response.message.n > 0

\* C9: right after the cooldown timestamp is recorded can_update() is false
\* and get_cooldown_remaining() is update_cooldown; whenever the interval
\* has passed since it can_update() is true; and while no run has recorded
\* it can_update() is true.
C9_CooldownGate ==
    /\ [][(\E r \in Reqs : req'[r].stamps > req[r].stamps)
            => /\ ~can_update'
               /\ get_cooldown_remaining' = update_cooldown]_vars
    /\ [](elapsed >= update_cooldown * TicksPerSecond => can_update)
    /\ []((\A r \in Reqs : req[r].stamps = 0) => can_update)

\* the interval has just passed since an update recorded the timestamp
C9_Witness ==
    /\ \E r \in Reqs : req[r].stamps = 1
    /\ elapsed = update_cooldown * TicksPerSecond
    /\ can_update

\* C10: the status query only reads.  A step of the status handler changes
\* neither the flag, nor the cooldown timestamp, nor anything of a start
\* request (its position, the stages it ran, what it sent, its outcome), nor
\* the stage sub-processes: the running update goes on as if not queried.
C10_StatusReadOnly ==
    [][(\E s \in StatusIds : st'[s].pc # st[s].pc)
         => UNCHANGED <<update_in_progress, elapsed, req, procs>>]_vars

\* a status query has returned while an accepted update is running, and has
\* reported that no update can be started
C10_Witness ==
    \E s \in StatusIds, r \in Reqs :
        /\ st[s].pc = "done"
        /\ ~st[s].result.can_update
        /\ Active(r)
        /\ update_in_progress
        /\ Len(req[r].stages) >= 2

\* the messages the verify stage can emit
VerifyMessages ==
    {Msg("Update complete! Now running version {new_version}", 0,
         get_running_version(label))
       : label \in {l \in ContainerLabels : Truthy(get_running_version(l))}}
    \cup {Text("Update complete! Could not verify new version.")}

\* pull, rebuild and restart have all succeeded in the run of q
RestartSucceeded(q) == q.stages = <<"pull", "rebuild", "restart", "verify">>

FirstStages(n) == [i \in 1..n |-> Stages[i]]

\* How a run that was driven to its end has left the state, by the stage
\* that failed in it (0: none).  Nothing in it depends on the entry point.
FinalState(q) ==
    /\ q.outcome = (IF q.failed = 0 THEN "complete" ELSE "error")
    /\ q.failed = 0 => (RestartSucceeded(q) /\ q.stamps = 1)
    /\ q.failed > 0 => (q.stages = FirstStages(q.failed) /\ q.stamps = 0)

\* C12: the blocking and the streaming entry point drive one state machine.
\* In every state the two apply the same guards; a request accepted by
\* either sets the flag and starts the pipeline in the same way; a run of
\* either kind that is driven to its end has invoked the stages in the same
\* order, up to the one that failed, has written the cooldown timestamp
\* exactly if none failed, and leaves the flag false; the blocking result is
\* a success exactly when that final state is the one a streamed run closes
\* with "complete", and a failure exactly when it is the one closed with
\* "error".
C12_SameStateMachine ==
    /\ [](trigger_guard = stream_guard)
    /\ [][\A r \in Reqs :
            (Arriving(r) /\ Accepted(r)')
            => /\ update_in_progress'
               /\ req'[r].pc = "starting"
               /\ req'[r].stages = <<>>
               /\ req'[r].stamps = 0
               /\ UNCHANGED <<elapsed, procs>>]_vars
    /\ [](\A r \in Reqs :
            (req[r].pc \in {"done", "complete_sent", "error_sent"}
             /\ req[r].outcome \in {"complete", "error"})
            => /\ FinalState(req[r])
               /\ req[r].pc = "done" => ~update_in_progress
               /\ req[r].kind = "trigger"
                    => /\ req[r].response.success = (req[r].outcome = "complete")
                       /\ ~req[r].response.success
                            => req[r].response.message
                                 \in FailureMessages(req[r].failed)
               /\ req[r].kind = "stream"
                    => /\ req[r].events[Len(req[r].events)].type = req[r].outcome
                       /\ req[r].outcome = "error"
                            => LastMessage(req[r]) \in FailureMessages(req[r].failed))

\* a blocking run has gone through the four stages and reported success
C12_Witness ==
    \E r \in Reqs :
        /\ req[r].kind = "trigger"
        /\ req[r].pc = "done"
        /\ req[r].response.success
        /\ req[r].stamps = 1
        /\ RestartSucceeded(req[r])

\* the status query arrives in this step, and with it its release lookup
StatusArriving(s) == st[s].pc = "new" /\ st'[s].pc # "new"

\* the release lookup of s gets its answer in this step
Answered(s) == st[s].pc = "fetching" /\ st'[s].pc = "done"

\* a cached release that is younger than the TTL
Fresh == cache # <<>> /\ cache_age < TtlTicks

\* C13 as stated: two lookups made within one TTL window issue at most one
\* network request between them, also when the second begins before the
\* first has its answer: no two lookups that both began less than the TTL
\* ago are waiting for a request of their own.
C13_OneRequestPerWindow ==
    \A s, t \in StatusIds :
        (/\ s # t
         /\ st[s].pc = "fetching" /\ st[s].began < TtlTicks
         /\ st[t].pc = "fetching" /\ st[t].began < TtlTicks)
        => st[s].requests + st[t].requests <= 1

\* C13 amended: a lookup made while a cached release is younger than the TTL
\* returns the cached release with no network request and leaves the cache
\* as it is; a successful fetch leaves the cache fresh, so that lookups made
\* after it, within the TTL, issue no request.  There is no coalescing: a
\* lookup made while the cache is not fresh issues a request of its own
\* whether or not another lookup's request is in flight.
C13_CachedWithinTtl ==
    /\ [][\A s \in StatusIds :
            (StatusArriving(s) /\ Fresh)
            => /\ st'[s].pc = "done"
               /\ st'[s].requests = 0
               /\ st'[s].fetch = "cached"
               /\ st'[s].release = cache
               /\ UNCHANGED <<cache, cache_age>>]_vars
    /\ [][\A s \in StatusIds :
            (StatusArriving(s) /\ ~Fresh)
            => st'[s].pc = "fetching" /\ st'[s].requests = 1]_vars
    /\ [](\A s \in StatusIds :
            (st[s].pc = "done" /\ st[s].fetch = "ok") => Fresh)

\* a lookup was answered from the cache while another lookup, begun before
\* the cache was filled, is still waiting for its own request
C13_Witness ==
    \E s, t \in StatusIds :
        /\ st[s].pc = "done"
        /\ st[s].fetch = "cached"
        /\ st[s].requests = 0
        /\ st[t].pc = "fetching"
        /\ st[t].requests = 1

\* C14: a lookup made when no release is cached or the cached one is as old
\* as the TTL or older issues exactly one network request; when that request
\* succeeds the lookup returns the release just fetched, the cache holds
\* that release and its age is zero.
C14_StaleFetchesOnce ==
    /\ [][\A s \in StatusIds :
            (StatusArriving(s) /\ (cache = <<>> \/ cache_age >= TtlTicks))
            => /\ st'[s].pc = "fetching"
               /\ st'[s].requests = 1
               /\ UNCHANGED <<cache, cache_age>>]_vars
    /\ [](\A s \in StatusIds :
            /\ st[s].requests <= 1
            /\ st[s].pc = "fetching" => st[s].requests = 1
            /\ (st[s].pc = "done" /\ st[s].fetch # "cached") => st[s].requests = 1)
    /\ [][\A s \in StatusIds :
            (Answered(s) /\ st'[s].fetch = "ok")
            => /\ Len(st'[s].release) = 1
               /\ st'[s].release[1].tag_name \in ReleaseTags
               /\ cache' = st'[s].release
               /\ cache_age' = 0
               /\ st'[s].requests = 1]_vars

\* a stale release was cached, and the lookup has fetched and returned
\* another one, which the cache now holds
C14_Witness ==
    \E s \in StatusIds :
        /\ st[s].pc = "done"
        /\ st[s].fetch = "ok"
        /\ st[s].replaced # <<>>
        /\ st[s].replaced # st[s].release
        /\ cache = st[s].release
        /\ cache_age = 0

\* the ways a fetch fails that get_latest_release handles
FetchFailures == {"HTTPStatusError", "RequestError"}

\* C15: when the fetch fails (HTTP error status, transport failure) the
\* lookup raises an error that names the cause and returns nothing, and the
\* cache is as it was: the cached release is neither removed nor replaced
\* and its age is not reset.
C15_FailureKeepsCache ==
    /\ [][\A s \in StatusIds :
            (Answered(s) /\ st'[s].fetch \in FetchFailures)
            => /\ UNCHANGED <<cache, cache_age>>
               /\ st'[s].replaced = cache'
               /\ st'[s].release = <<>>
               /\ st'[s].error = ReleaseError(st'[s].fetch)
               /\ st'[s].error # Text("")]_vars
    /\ [](\A s \in StatusIds :
            (st[s].pc = "done" /\ st[s].fetch \in {"cached", "ok"})
            => st[s].error = Text(""))

\* a fetch has failed and the stale release is still cached, still stale
C15_Witness ==
    \E s \in StatusIds :
        /\ st[s].pc = "done"
        /\ st[s].fetch = "HTTPStatusError"
        /\ cache # <<>>
        /\ cache_age >= TtlTicks

\* C16: a release lookup that fails does not fail the status query.  The
\* handler returns in the step in which the lookup fails; its response
\* shows the latest version as "Unknown" and no update as available, and is
\* in every other field (current version, container status, can_update,
\* cooldown_remaining) the response it would have given had the lookup
\* returned a release.
C16_LookupFailureDegrades ==
    /\ [][\A s \in StatusIds : st[s].pc = "fetching" => st'[s].pc \in {"fetching", "done"}]_vars
    /\ [](\A s \in StatusIds :
            (st[s].pc = "done" /\ st[s].fetch \notin {"cached", "ok"})
            => /\ st[s].result.latest_version = Unknown
               /\ ~st[s].result.update_available
               /\ st[s].result.current_version = format_version(st[s].current_version)
               /\ st[s].result.can_update = (can_update /\ ~update_in_progress)
               /\ st[s].result.cooldown_remaining = get_cooldown_remaining
               /\ \E container_status \in ContainerStates :
                     \A tag \in ReleaseTags :
                         st[s].result =
                           [StatusResponse(st[s].current_version, lstrip_v(tag),
                                           container_status)
                              EXCEPT !.latest_version = Unknown,
                                     !.update_available = FALSE])

\* the lookup failed for a query made during the cooldown of an update: the
\* response shows the running version, "Unknown" and the remaining seconds
C16_Witness ==
    \E s \in StatusIds :
        /\ st[s].pc = "done"
        /\ st[s].fetch = "RequestError"
        /\ st[s].result.latest_version = Unknown
        /\ st[s].result.current_version = <<"v", "4", ".", "2", ".", "4">>
        /\ st[s].result.cooldown_remaining > 0
        /\ st[s].result.container_running

\* C17: the end-to-end scenario.  With "4.2.3" running and the latest
\* release tagged "v4.2.4" the status shows an update as available and the
\* latest version as "v4.2.4"; a streamed update whose three stages succeed
\* and whose verification reads "4.2.4" sends "progress" events and then
\* exactly "complete: Update completed successfully!"; a status query with
\* "4.2.4" running and the same release shows no update as available.
C17_EndToEnd ==
    /\ \A s \in StatusIds :
          (/\ st[s].pc = "done"
           /\ st[s].release = <<[tag_name |-> <<"v", "4", ".", "2", ".", "4">>]>>)
          => /\ st[s].result.latest_version = <<"v", "4", ".", "2", ".", "4">>
             /\ st[s].current_version = <<"4", ".", "2", ".", "3">>
                  => /\ st[s].result.update_available
                     /\ st[s].result.current_version = <<"v", "4", ".", "2", ".", "3">>
             /\ st[s].current_version = <<"4", ".", "2", ".", "4">>
                  => ~st[s].result.update_available
    /\ \A r \in Reqs :
          (/\ req[r].kind = "stream"
           /\ req[r].pc = "done"
           /\ req[r].outcome # "abandoned"
           /\ \E i \in 1..Len(req[r].events) :
                 req[r].events[i].message =
                   Msg("Update complete! Now running version {new_version}", 0,
                       <<"4", ".", "2", ".", "4">>))
          => /\ Len(req[r].events) >= 2
             /\ \A i \in 1..(Len(req[r].events) - 1) :
                   req[r].events[i].type = "progress"
             /\ req[r].events[Len(req[r].events)] =
                   Event("complete", Text("Update completed successfully!"))

\* the end of the scenario: the streamed update has completed and verified
\* "4.2.4", and the status query made after it shows no update
C17_Witness ==
    \E s \in StatusIds, r \in Reqs :
        /\ req[r].kind = "stream"
        /\ req[r].pc = "done"
        /\ req[r].outcome = "complete"
        /\ req[r].events[Len(req[r].events) - 1].message =
             Msg("Update complete! Now running version {new_version}", 0,
                 <<"4", ".", "2", ".", "4">>)
        /\ st[s].pc = "done"
        /\ st[s].current_version = <<"4", ".", "2", ".", "4">>
        /\ st[s].release = <<[tag_name |-> <<"v", "4", ".", "2", ".", "4">>]>>
        /\ ~st[s].result.update_available
        /\ ~st[s].result.can_update

\* C18: for all version strings a and b, with or without "v", with
\* different numbers of components, with no digits at all:
\* compare_versions(a, a) = 0 and
\* compare_versions(a, b) = -compare_versions(b, a).
C18_CompareAntisymmetric ==
    ver.op = "compare_versions"
    => /\ ver.compared \in {-1, 0, 1}
       /\ ver.a = ver.b => ver.compared = 0
       /\ compare_versions(ver.a, ver.a) = 0
       /\ ver.compared = -compare_versions(ver.b, ver.a)

\* "v1" has been compared with "1.0": equal, although the strings differ in
\* the prefix and in the number of components
C18_Witness ==
    /\ ver.op = "compare_versions"
    /\ ver.a = <<"v", "1">>
    /\ ver.b = <<"1", ".", "0">>
    /\ ver.compared = 0

\* component i of the parsed version t, zero past its end
Component(t, i) == IF i <= Len(t) THEN t[i] ELSE 0

\* t is before u, component by component, the shorter one padded with zeros
PaddedBefore(t, u) ==
    \E i \in 1..Max(Len(t), Len(u)) :
        /\ Component(t, i) < Component(u, i)
        /\ \A j \in 1..(i - 1) : Component(t, j) = Component(u, j)

\* C19: is_update_available(current, latest) is true exactly when the
\* integers parsed from current, padded with zeros to the longer length,
\* come strictly before those of latest in lexicographic order; "4.2"
\* against "4.2.0" is false, "4.2.3" against "4.2.4" is true, "4.2.4"
\* against "4.2.3" is false.
C19_UpdateAvailableIffLess ==
    ver.op = "is_update_available"
    => /\ ver.available = PaddedBefore(parse_version(ver.a), parse_version(ver.b))
       /\ (ver.a = <<"4", ".", "2">> /\ ver.b = <<"4", ".", "2", ".", "0">>)
            => ~ver.available
       /\ (ver.a = <<"4", ".", "2", ".", "3">> /\ ver.b = <<"4", ".", "2", ".", "4">>)
            => ver.available
       /\ (ver.a = <<"4", ".", "2", ".", "4">> /\ ver.b = <<"4", ".", "2", ".", "3">>)
            => ~ver.available

\* "4.2" has been tested against "4.2.0": no update
C19_Witness ==
    /\ ver.op = "is_update_available"
    /\ ver.a = <<"4", ".", "2">>
    /\ ver.b = <<"4", ".", "2", ".", "0">>
    /\ ~ver.available

\* C20 as stated: for absent or empty input format_version returns
\* "Unknown", and for every other input the result has a single leading "v".
C20_SingleLeadingV ==
    ver.op = "format_version"
    => IF ver.a = None \/ ver.a = <<>>
       THEN ver.formatted = Unknown
       ELSE /\ Head(ver.formatted) = "v"
            /\ Len(ver.formatted) >= 2 => ver.formatted[2] # "v"

\* C20 amended: for absent or empty input format_version returns "Unknown";
\* a version that does not start with "v" gets one "v" prepended; a version
\* that starts with "v" is returned unchanged, with every leading "v" it
\* has, so that the result has a single leading "v" only if the input has
\* at most one.
C20_EnsuresLeadingV ==
    ver.op = "format_version"
    => IF ver.a = None \/ ver.a = <<>>
       THEN ver.formatted = Unknown
       ELSE /\ Head(ver.a) # "v" => ver.formatted = <<"v">> \o ver.a
            /\ Head(ver.a) = "v" => ver.formatted = ver.a
            /\ Head(ver.formatted) = "v"
            /\ lstrip_v(ver.formatted) = lstrip_v(ver.a)

\* "v4.2.3" has been formatted, and is unchanged
C20_Witness ==
    /\ ver.op = "format_version"
    /\ ver.a = <<"v", "4", ".", "2", ".", "3">>
    /\ ver.formatted = <<"v", "4", ".", "2", ".", "3">>

\* the stage a progress message comes from: 0 for the pipeline's opening
\* message, 1..3 for pull, rebuild and restart, 4 for verify
StageOf(m) ==
    IF m = Text("Starting update process...") THEN 0
    ELSE IF \E s \in 1..3 : m = Text(HeaderMsg[s]) \/ m = Text(OkMsg[s])
         THEN CHOOSE s \in 1..3 : m = Text(HeaderMsg[s]) \/ m = Text(OkMsg[s])
    ELSE IF m.fmt = "  {line}" THEN CHOOSE s \in 1..3 : <<Stages[s]>> = m.v
    ELSE 4

\* the place of a progress message among the messages of its stage: the
\* header, the sub-process's lines in the order it printed them, the
\* success message; for verify the waiting message, then the version
LineOf(m) ==
    IF m.fmt = "  {line}" THEN m.n
    ELSE IF \E s \in 1..3 : m = Text(HeaderMsg[s]) THEN 0
    ELSE IF \E s \in 1..3 : m = Text(OkMsg[s]) THEN MaxLines + 1
    ELSE IF m \in VerifyMessages THEN 1
    ELSE 0

FourStages == <<"pull", "rebuild", "restart", "verify">>

\* the "progress" events of a request, in the order they were sent
ProgressOf(q) == SelectSeq(q.events, LAMBDA e : e.type = "progress")

\* C21: within an accepted run the stages are invoked in the order pull,
\* rebuild, restart, verify, each at most once, and a stage is invoked only
\* when the stage before it has yielded its success message and none has
\* failed; the progress events of a streamed run are in stage order, within
\* a stage in the order the stage produced them, each once.
C21_StageOrder ==
    /\ [](\A r \in Reqs :
            /\ Len(req[r].stages) <= 4
            /\ req[r].stages = SubSeq(FourStages, 1, Len(req[r].stages))
            /\ LET ev == ProgressOf(req[r]) IN
               \A i, j \in 1..Len(ev) :
                   i < j => \/ StageOf(ev[i].message) < StageOf(ev[j].message)
                            \/ /\ StageOf(ev[i].message) = StageOf(ev[j].message)
                               /\ LineOf(ev[i].message) < LineOf(ev[j].message))
    /\ [][\A r \in Reqs :
            Len(req'[r].stages) > Len(req[r].stages)
            => /\ req'[r].stages = Append(req[r].stages,
                                          FourStages[Len(req[r].stages) + 1])
               /\ req[r].failed = 0 /\ req'[r].failed = 0
               /\ IF req[r].stages = <<>>
                  THEN req[r].pc = "starting"
                  ELSE req[r].pc = "ok" /\ req[r].stage = Len(req[r].stages)
               /\ req[r].kind = "stream"
                    => /\ Len(req'[r].events) = Len(req[r].events) + 1
                       /\ StageOf(req'[r].events[Len(req'[r].events)].message)
                            = Len(req'[r].stages)
                       /\ req[r].stages # <<>>
                            => req[r].events[Len(req[r].events)].message
                                 = Text(OkMsg[Len(req[r].stages)])]_vars

\* a streamed run has ended with "complete" and every stage's sub-process
\* printed a line in it
C21_Witness ==
    \E r \in Reqs :
        /\ req[r].kind = "stream"
        /\ req[r].pc = "done"
        /\ req[r].outcome = "complete"
        /\ \A s \in 1..3 : \E i \in 1..Len(req[r].events) :
               req[r].events[i].message = Msg("  {line}", 1, <<Stages[s]>>)
        /\ Len(ProgressOf(req[r])) = 12

\* a successful fetch stores its release in this step
Stored(s) == Answered(s) /\ st'[s].fetch = "ok"

\* the cached release and its time are written together, by one successful
\* fetch: the step of a successful fetch stores the fetched release with
\* the present time, and no other step stores a release or renews the time
WrittenTogether ==
    /\ \A s \in StatusIds :
          Stored(s) => cache' = st'[s].release /\ cache' # <<>> /\ cache_age' = 0
    /\ (cache' # cache /\ cache' # <<>>) => \E s \in StatusIds : Stored(s)
    /\ cache_age' < cache_age => \E s \in StatusIds : Stored(s)

\* C22 as stated: the cached release and its time come from one single
\* successful fetch, and once the cache holds a release no operation of the
\* client returns it to the empty state.
C22_NeverEvicted ==
    [][WrittenTogether /\ (cache # <<>> => cache' # <<>>)]_vars

\* C22 amended: the cached release and its time are written together by one
\* successful fetch; a release lookup never empties the cache; the one
\* operation of the client that does is clear_cache, which empties the
\* release and its time together and touches nothing else.
C22_ReplacedWholesale ==
    [][/\ WrittenTogether
       /\ (\E s \in StatusIds : st'[s].pc # st[s].pc)
            => (cache # <<>> => cache' # <<>>)
       /\ (cache # <<>> /\ cache' = <<>>)
            => /\ cache_age' = AgeCap
               /\ ~is_cache_valid'
               /\ UNCHANGED <<elapsed, update_in_progress, req, procs, st>>]_vars

\* a successful fetch has replaced a cached release that had gone stale
C22_Witness ==
    \E s \in StatusIds :
        /\ st[s].pc = "done"
        /\ st[s].fetch = "ok"
        /\ st[s].replaced # <<>>
        /\ cache = st[s].release
        /\ cache_age = 0

\* C23: at most one stage sub-process (image pull, image rebuild, container
\* restart) is executing at any time, also after a consumer has abandoned
\* the stream in the middle of a stage and another start request has been
\* accepted.
C23_OneSubprocess ==
    Cardinality(procs) <= 1

\* C24: the two cooldown queries agree at every instant: can_update() is
\* true exactly when get_cooldown_remaining() is 0, also when the time since
\* the last update is not a whole number of seconds.
C24_QueriesAgree ==
    can_update <=> get_cooldown_remaining = 0

\* C25: the can_update field of a status response agrees with the start
\* guard of the state it is computed in: it is true exactly when a start
\* request of either kind would be accepted there (no run in progress and
\* the cooldown elapsed), and it is false whenever a run is in progress.
C25_CanUpdateIsGuard ==
    \A s \in StatusIds :
        st[s].pc = "done"
        => /\ st[s].result.can_update
                <=> (stream_guard = "accept" /\ trigger_guard = "accept")
           /\ st[s].result.can_update
                <=> (~update_in_progress /\ elapsed >= CooldownTicks)
           /\ (\E r \in Reqs : Active(r)) => ~st[s].result.can_update

\* a status response computed while a streamed run is in progress and the
\* cooldown gate is open: can_update is false
C25_Witness ==
    \E s \in StatusIds :
        /\ st[s].pc = "done"
        /\ \E r \in Reqs : Active(r) /\ req[r].kind = "stream"
        /\ can_update
        /\ ~st[s].result.can_update

InnerCooldownFmt == "Update cooldown active. Please wait {remaining} seconds."

\* C26: a run accepted by either endpoint never fails on the inner cooldown
\* check of perform_update: the step that accepts a request also passes
\* that check, whatever requests came before, and the error "Update
\* cooldown active. Please wait N seconds." is no event and no result of any
\* request.
C26_InnerCheckPasses ==
    /\ [](\A r \in Reqs :
            /\ \A i \in 1..Len(req[r].events) :
                  req[r].events[i].message.fmt # InnerCooldownFmt
            /\ req[r].response.message.fmt # InnerCooldownFmt)
    /\ [][\A r \in Reqs :
            (Arriving(r) /\ ~update_in_progress /\ can_update)
            => /\ req'[r].pc = "starting"
               /\ req'[r].outcome = "running"
               /\ update_in_progress'
               /\ UNCHANGED elapsed]_vars

\* an update has completed, and a request made at the instant its cooldown
\* ended has been accepted and has passed the inner check
C26_Witness ==
    \E a, b \in Reqs :
        /\ req[a].stamps = 1
        /\ req[a].pc \in {"done", "gone"}
        /\ req[b].pc = "starting"
        /\ req[b].since_accept = 0
        /\ elapsed = CooldownTicks

\* the latest version the handler of s holds: the fetched or cached tag
\* without its leading "v", None when the lookup failed
LatestHeld(s) ==
    IF st[s].fetch \in {"cached", "ok"} THEN lstrip_v(st[s].release[1].tag_name)
    ELSE None

\* C27: a status response never shows an update as available when a version
\* is unknown: if the running version is absent, or the latest release's
\* tag is absent or empty (the lookup failed, or the tag is empty), then
\* update_available is false whatever the other version is; so it is false
\* whenever one of the two versions is shown as "Unknown".
C27_UnknownMeansNoUpdate ==
    \A s \in StatusIds :
        st[s].pc = "done"
        => /\ (~Truthy(st[s].current_version) \/ ~Truthy(LatestHeld(s)))
                => ~st[s].result.update_available
           /\ (st[s].result.current_version = Unknown
               \/ st[s].result.latest_version = Unknown)
                => ~st[s].result.update_available
           /\ st[s].result.update_available
                => is_update_available(st[s].current_version, LatestHeld(s))

\* the running version cannot be read and the latest release is "v4.2.4":
\* no update is shown
C27_Witness ==
    \E s \in StatusIds :
        /\ st[s].pc = "done"
        /\ st[s].current_version = None
        /\ st[s].fetch = "ok"
        /\ st[s].release = <<[tag_name |-> <<"v", "4", ".", "2", ".", "4">>]>>
        /\ st[s].result.current_version = Unknown
        /\ ~st[s].result.update_available

====
